---- MODULE Spec2Model ----
(***************************************************************************)
(* Webhook Intake & Replay Processor of saas-webhooks: signature           *)
(* verification, idempotent intake, detached processing with a retry       *)
(* counter, and replay by event id, over the in-memory map _EVENTS.        *)
(***************************************************************************)
EXTENDS Integers, Sequences, FiniteSets, Bags, TLC

VARIABLES
    _EVENTS,      \* dict[str, WebhookLogEntry]
    tasks,        \* background tasks added and not yet started (bag of payloads)
    running,      \* _process_event calls suspended at the dispatch await (bag of payloads)
    now,          \* the clock read by _utc_now()
    response,     \* the last HTTP response sent
    failure_streak, \* history: failed attempts of an event completed since its last success
    replay_mark,  \* history: a failed record as the last accepted replay of it found it
    hung,         \* _process_event calls whose dispatch will never return (bag of payloads)
    ticket,       \* SupportAgentService: the handleTicket call in progress, where it stands
    ticket_response, \* SupportAgentService: what handleTicket returned
    usersByEmail, \* AuthService: Map<string, UserRecord>
    usersById,    \* AuthService: Map<string, UserRecord>
    tokens,       \* AuthService: Map<string, string>, token -> user id
    profiles,     \* AuthService: Map<string, UserProfile>
    auth_result,  \* AuthService: what the last call returned or threw
    sig_signer,   \* signature round trip: what the origin signed
    sig_request,  \* signature round trip: what the verifier is handed
    sig_verdict   \* signature round trip: result of _verify_signature

whVars == <<_EVENTS, tasks, running, now, response, failure_streak>>
sigVars == <<sig_signer, sig_request, sig_verdict>>
authVars == <<usersByEmail, usersById, tokens, profiles, auth_result>>
agentVars == <<ticket, ticket_response>>
vars == <<_EVENTS, tasks, running, now, response, failure_streak, replay_mark,
          hung, ticket, ticket_response,
          usersByEmail, usersById, tokens, profiles, auth_result,
          sig_signer, sig_request, sig_verdict>>

----------------------------------------------------------------------------
(* Bounds of the model *)

MaxReplays == 4     \* replays accepted in all
MaxLogReplays == 1  \* replays accepted in all where the log is listed or the scheduling is stated
MaxTokens == 3      \* tokens randomBytes can yield
MaxTime == 1        \* largest clock value
MaxStrLen == 2      \* longest body / timestamp of the signature round trip

(* Program constants *)

WEBHOOKS_MAX_RETRIES == 3

STRIPE_WEBHOOK_SECRET == "whsec_test_local_development"

----------------------------------------------------------------------------
(* Optional values: Python None and a present value *)

None == <<>>

Some(x) == <<x>>

(* Input domains *)

EventIds == {"evt_1", "evt_2"}

\* ids given to the replay endpoint: evt_1 is replayed before and after its intake
ReplayIds == {"evt_1"}

Errors == {"timeout", "smtp down"}

\* StripeWebhookRequest: id, type, data
StripeWebhookRequest(id, type, data) == [id |-> id, type |-> type, data |-> data]

\* requests the origin sends: an event per id, and a second delivery under evt_1
\* that carries another type and data
Payloads ==
    {StripeWebhookRequest(i, "customer.subscription.updated", "d1") : i \in EventIds}
    \cup {StripeWebhookRequest("evt_1", "invoice.paid", "d2")}

\* the raw request body of a payload, as a sequence of symbols
json_dumps(p) == <<p.id, p.type, p.data>>

----------------------------------------------------------------------------
(* Signature Verifier *)

\* hmac.new(key, msg, sha256).hexdigest(): a keyed digest, taken collision-free
hmac_hexdigest(key, msg) == [key |-> key, msg |-> msg]

\* hmac.compare_digest
compare_digest(a, b) == a = b

\* a verifier that leaves the timestamp out of what it signs
signed_payload_unbound(timestamp, body) == body

\* f"{timestamp}.{body.decode()}"
signed_payload(timestamp, body) == timestamp \o <<".">> \o body

\* header "t=<timestamp>,v1=<signature>" as its comma-separated k=v fields
header_ok(header) ==
    /\ Len(header) = 2
    /\ header[1].k = "t"
    /\ header[2].k = "v1"

_parse_signature_header(header) == [timestamp |-> header[1].v, signature |-> header[2].v]

\* a verifier that digests the signed payload without the secret
_verify_signature_unkeyed(body, header, secret) ==
    LET parsed == _parse_signature_header(header)
    IN  signed_payload(parsed.timestamp, body) = parsed.signature.msg

_verify_signature(body, header, secret) ==
    LET parsed == _parse_signature_header(header)
        expected == hmac_hexdigest(secret, signed_payload(parsed.timestamp, body))
    IN  compare_digest(expected, parsed.signature)

\* the origin's side: print(f"Stripe-Signature: t={ts},v1={sig}")
stripe_signature(ts, body, secret) ==
    <<[k |-> "t", v |-> ts], [k |-> "v1", v |-> hmac_hexdigest(secret, ts \o <<".">> \o body)]>>

----------------------------------------------------------------------------
(* Event Store records *)

_utc_now == now

\* step 3 of the intake, "Persist log entry": the original event body is kept
\* as the record's metadata
intake_metadata(payload) == payload.data

\* an entry that counts the intake itself as an attempt
WebhookLogEntry_counted(payload, t) ==
    [event_id |-> payload.id,
     event_type |-> payload.type,
     status |-> "queued",
     received_at |-> t,
     processed_at |-> None,
     attempts |-> 1,
     replay_count |-> 0,
     last_error |-> None,
     metadata |-> intake_metadata(payload)]

WebhookLogEntry(payload, t) ==
    [event_id |-> payload.id,
     event_type |-> payload.type,
     status |-> "queued",
     received_at |-> t,
     processed_at |-> None,
     attempts |-> 0,
     replay_count |-> 0,
     last_error |-> None,
     metadata |-> intake_metadata(payload)]

\* _EVENTS.get(event_id)
\* a lookup that never finds the record
events_get_miss(event_id) == None

events_get(event_id) == IF event_id \in DOMAIN _EVENTS THEN Some(_EVENTS[event_id]) ELSE None

----------------------------------------------------------------------------
(* Intake Handler: POST /api/webhooks/stripe *)

\* headers a request may carry for a given body
RequestHeaders(body) ==
    { None,
      Some(stripe_signature(<<"1">>, body, STRIPE_WEBHOOK_SECRET)),
      Some(stripe_signature(<<"1">>, body, "whsec_other")),
      Some(stripe_signature(<<"1">>, <<"forged">>, STRIPE_WEBHOOK_SECRET)),
      Some(<<[k |-> "t", v |-> <<"1">>]>>) }

\* the check runs on requests that carry a stripe-signature header
signature_checked(header) == header # None

\* step 1: a checked request whose header is malformed or does not verify is rejected
signature_rejected(body, header) ==
    /\ signature_checked(header)
    /\ \/ ~header_ok(header[1])
       \/ ~_verify_signature(body, header[1], STRIPE_WEBHOOK_SECRET)

\* a duplicate acknowledgment that reports no attempts
duplicate_response_zero(existing) ==
    [code |-> 202, status |-> "duplicate", event_id |-> existing.event_id,
     attempts |-> 0]

duplicate_response(existing) ==
    [code |-> 202, status |-> "duplicate", event_id |-> existing.event_id,
     attempts |-> existing.attempts]

accepted_response(payload) ==
    [code |-> 202, status |-> "accepted", event_id |-> payload.id]

\* an intake that runs the side effect itself before it answers
receive_webhook_inline(payload, header) ==
    LET body == json_dumps(payload)
        existing == events_get(payload.id)
    IN  IF signature_rejected(body, header)
        THEN /\ response' = [code |-> 401, error |-> "AuthenticationError"]
             /\ UNCHANGED <<_EVENTS, tasks, running, now, failure_streak>>
        ELSE IF existing # None
        THEN /\ response' = duplicate_response(existing[1])
             /\ UNCHANGED <<_EVENTS, tasks, running, now, failure_streak>>
        ELSE /\ _EVENTS' = (payload.id :> [WebhookLogEntry(payload, _utc_now) EXCEPT
                                !.attempts = 1, !.status = "processed",
                                !.processed_at = Some(_utc_now)]) @@ _EVENTS
             /\ response' = accepted_response(payload)
             /\ UNCHANGED <<tasks, running, now, failure_streak>>

receive_webhook(payload, header) ==
    LET body == json_dumps(payload)
        existing == events_get(payload.id)
    IN  IF signature_rejected(body, header)
        THEN /\ response' = [code |-> 401, error |-> "AuthenticationError"]
             /\ UNCHANGED <<_EVENTS, tasks, running, now, failure_streak>>
        ELSE IF existing # None
        THEN /\ response' = duplicate_response(existing[1])
             /\ UNCHANGED <<_EVENTS, tasks, running, now, failure_streak>>
        ELSE /\ _EVENTS' = (payload.id :> WebhookLogEntry(payload, _utc_now)) @@ _EVENTS
             /\ tasks' = tasks (+) SetToBag({payload})
             /\ response' = accepted_response(payload)
             /\ UNCHANGED <<running, now, failure_streak>>

----------------------------------------------------------------------------
(* Replay Handler: POST /api/webhooks/replay/{event_id} *)

\* a replay that hands over the id and type with an empty body
replay_payload_bare(event) == StripeWebhookRequest(event.event_id, event.event_type, "")

replay_payload(event) == StripeWebhookRequest(event.event_id, event.event_type, event.metadata)

\* an acknowledgment built from the count read before the increment
replay_response_stale(event) ==
    [code |-> 202, status |-> "replay_accepted", event_id |-> event.event_id,
     replay_count |-> event.replay_count - 1]

replay_response(event) ==
    [code |-> 202, status |-> "replay_accepted", event_id |-> event.event_id,
     replay_count |-> event.replay_count]

RECURSIVE SumReplays(_)
SumReplays(ids) ==
    IF ids = {} THEN 0
    ELSE LET i == CHOOSE x \in ids : TRUE
         IN  _EVENTS[i].replay_count + SumReplays(ids \ {i})

\* replays accepted so far, over all records
replays_total == SumReplays(DOMAIN _EVENTS)

\* a replay that schedules the processing twice
replay_event_twice(event_id) ==
    LET event == events_get(event_id)
    IN  IF event = None
        THEN /\ response' = [code |-> 500, error |-> "AttributeError"]
             /\ UNCHANGED <<_EVENTS, tasks, running, now, failure_streak>>
        ELSE /\ replays_total < MaxReplays
             /\ _EVENTS' = [_EVENTS EXCEPT ![event_id].replay_count = @ + 1]
             /\ tasks' = tasks (+) SetToBag({replay_payload(event[1])})
                               (+) SetToBag({replay_payload(event[1])})
             /\ response' = replay_response(_EVENTS'[event_id])
             /\ UNCHANGED <<running, now, failure_streak>>

replay_event(event_id) ==
    LET event == events_get(event_id)
    IN  IF event = None
        THEN \* event.replay_count on None: AttributeError, answered as a server error
             /\ response' = [code |-> 500, error |-> "AttributeError"]
             /\ UNCHANGED <<_EVENTS, tasks, running, now, failure_streak>>
        ELSE /\ replays_total < MaxReplays
             /\ _EVENTS' = [_EVENTS EXCEPT ![event_id].replay_count = @ + 1]
             /\ tasks' = tasks (+) SetToBag({replay_payload(event[1])})
             /\ response' = replay_response(_EVENTS'[event_id])
             /\ UNCHANGED <<running, now, failure_streak>>

----------------------------------------------------------------------------
(* Async Processor: _process_event, split at its await *)

\* a task start that does not count the attempt
process_begin_uncounted(record) == record

\* record.attempts += 1
process_begin(record) == [record EXCEPT !.attempts = @ + 1]

\* a try branch that writes the record back with the count of a first attempt
process_success_stale(record, t) ==
    [record EXCEPT !.status = "processed", !.processed_at = Some(t), !.attempts = 1]

\* a try branch that also stamps the record as received now
process_success_restamped(record, t) ==
    [record EXCEPT !.status = "processed", !.processed_at = Some(t), !.received_at = t]

\* the try branch after the dispatch returned
process_success(record, t) ==
    [record EXCEPT !.status = "processed", !.processed_at = Some(t)]

\* an except branch that still schedules a retry at the bound itself
process_failure_inclusive(record, exc, max_attempts) ==
    [record EXCEPT !.last_error = Some(exc),
                   !.status = IF record.attempts <= max_attempts
                              THEN "retry_scheduled" ELSE "failed"]

\* an except branch that does not count replayed attempts against the bound
process_failure_replayed(record, exc, max_attempts) ==
    [record EXCEPT !.last_error = Some(exc),
                   !.status = IF record.attempts - record.replay_count < max_attempts
                              THEN "retry_scheduled" ELSE "failed"]

\* an except branch that records nothing
process_failure_unrecorded(record, exc, max_attempts) == record

\* an except branch that puts the record back in the queue for its retry
except_status_writes_requeue(record, max_attempts) ==
    IF record.attempts < max_attempts
    THEN <<"failed", "queued">>
    ELSE <<"failed">>

\* the values the except branch assigns to event.status, in order
except_status_writes(record, max_attempts) ==
    IF record.attempts < max_attempts
    THEN <<"failed", "retry_scheduled">>
    ELSE <<"failed">>

\* an except branch that keeps no error text
process_failure_silent(record, exc, max_attempts) ==
    LET writes == except_status_writes(record, max_attempts)
    IN  [record EXCEPT !.status = writes[Len(writes)]]

\* the except branch; no await separates its assignments
process_failure(record, exc, max_attempts) ==
    LET writes == except_status_writes(record, max_attempts)
    IN  [record EXCEPT !.last_error = Some(exc),
                       !.status = writes[Len(writes)]]

\* the task starts: up to the await of _dispatch_subscription_notifications
_process_event_start(event) ==
    /\ BagIn(event, tasks)
    /\ tasks' = tasks (-) SetToBag({event})
    /\ running' = running (+) SetToBag({event})
    /\ _EVENTS' = [_EVENTS EXCEPT ![event.id] = process_begin(@)]
    /\ UNCHANGED <<now, response, failure_streak>>

\* the dispatch returned normally
_process_event_ok(event) ==
    /\ BagIn(event, running)
    /\ running' = running (-) SetToBag({event})
    /\ _EVENTS' = [_EVENTS EXCEPT ![event.id] = process_success(@, _utc_now)]
    /\ failure_streak' = [failure_streak EXCEPT ![event.id] = 0]
    /\ UNCHANGED <<tasks, now, response>>

\* an except branch that schedules the retry it announces
_process_event_except_retrying(event, exc) ==
    /\ BagIn(event, running)
    /\ running' = running (-) SetToBag({event})
    /\ _EVENTS' = [_EVENTS EXCEPT ![event.id] = process_failure(@, exc, WEBHOOKS_MAX_RETRIES)]
    /\ tasks' = IF _EVENTS'[event.id].status = "retry_scheduled"
                THEN tasks (+) SetToBag({event}) ELSE tasks
    /\ failure_streak' = [failure_streak EXCEPT ![event.id] = @ + 1]
    /\ UNCHANGED <<now, response>>

\* the dispatch raised exc
_process_event_except(event, exc) ==
    /\ BagIn(event, running)
    /\ running' = running (-) SetToBag({event})
    /\ _EVENTS' = [_EVENTS EXCEPT ![event.id] = process_failure(@, exc, WEBHOOKS_MAX_RETRIES)]
    /\ failure_streak' = [failure_streak EXCEPT ![event.id] = @ + 1]
    /\ UNCHANGED <<tasks, now, response>>

\* time passes
Tick ==
    /\ now < MaxTime
    /\ now' = now + 1
    /\ UNCHANGED <<_EVENTS, tasks, running, response, failure_streak>>

----------------------------------------------------------------------------
(* The webhook service *)

SigIdle ==
    /\ sig_signer = None
    /\ sig_request = None
    /\ sig_verdict = None

\* new Map() four times: the AuthService as constructed
AuthInit ==
    /\ usersByEmail = <<>>
    /\ usersById = <<>>
    /\ tokens = <<>>
    /\ profiles = <<>>
    /\ auth_result = [call |-> "new", code |-> 0]

WhInit ==
    /\ _EVENTS = <<>>
    /\ tasks = EmptyBag
    /\ running = EmptyBag
    /\ now = 0
    /\ response = [code |-> 0]
    /\ failure_streak = [i \in EventIds |-> 0]
    /\ replay_mark = None
    /\ hung = EmptyBag

\* no ticket handled
AgentIdle ==
    /\ ticket = None
    /\ ticket_response = None

Init == WhInit /\ SigIdle /\ AuthInit /\ AgentIdle

\* what a step of the webhook service leaves alone
asideVars == <<sigVars, authVars, agentVars, hung>>

Intake == \E p \in Payloads : \E h \in RequestHeaders(json_dumps(p)) : receive_webhook(p, h)

Replay == \E id \in ReplayIds : replay_event(id)

ProcessStart == \E p \in Payloads : _process_event_start(p)

ProcessOk == \E p \in Payloads : _process_event_ok(p)

ProcessExcept == \E p \in Payloads : \E exc \in Errors : _process_event_except(p, exc)

\* the service within one reading of the clock: no code path reads a timestamp back
Next ==
    \/ Intake /\ UNCHANGED <<asideVars, replay_mark>>
    \/ Replay /\ UNCHANGED <<asideVars, replay_mark>>
    \/ ProcessStart /\ UNCHANGED <<asideVars, replay_mark>>
    \/ ProcessOk /\ UNCHANGED <<asideVars, replay_mark>>
    \/ ProcessExcept /\ UNCHANGED <<asideVars, replay_mark>>

Spec == Init /\ [][Next]_vars

\* the service with the clock advancing between steps
NextClock ==
    \/ Intake /\ UNCHANGED <<asideVars, replay_mark>>
    \/ Replay /\ UNCHANGED <<asideVars, replay_mark>>
    \/ ProcessStart /\ UNCHANGED <<asideVars, replay_mark>>
    \/ ProcessOk /\ UNCHANGED <<asideVars, replay_mark>>
    \/ ProcessExcept /\ UNCHANGED <<asideVars, replay_mark>>
    \/ Tick /\ UNCHANGED <<asideVars, replay_mark>>

SpecClock == Init /\ [][NextClock]_vars

----------------------------------------------------------------------------
(* The service with the last accepted replay of a failed record remembered *)

\* the tasks of a bag that belong to event i
TasksOf(bag, i) ==
    BagCardinality([p \in {q \in BagToSet(bag) : q.id = i} |-> bag[p]])

\* processing of event i that is scheduled and has not started
Pending(i) == TasksOf(tasks, i)

\* processing of event i that has started and has not finished
InFlight(i) == TasksOf(running, i)

\* what replay_event read from the store before it wrote, kept for a failed record
replay_found(event_id) ==
    IF event_id \in DOMAIN _EVENTS /\ _EVENTS[event_id].status = "failed"
    THEN Some([event_id |-> event_id,
               status |-> _EVENTS[event_id].status,
               attempts |-> _EVENTS[event_id].attempts,
               replay_count |-> _EVENTS[event_id].replay_count,
               pending |-> Pending(event_id)])
    ELSE replay_mark

ReplayMarked ==
    \E id \in ReplayIds : replay_event(id) /\ replay_mark' = replay_found(id)

NextReplay ==
    \/ Intake /\ UNCHANGED <<asideVars, replay_mark>>
    \/ ReplayMarked /\ UNCHANGED asideVars
    \/ ProcessStart /\ UNCHANGED <<asideVars, replay_mark>>
    \/ ProcessOk /\ UNCHANGED <<asideVars, replay_mark>>
    \/ ProcessExcept /\ UNCHANGED <<asideVars, replay_mark>>

SpecReplay == Init /\ [][NextReplay]_vars

----------------------------------------------------------------------------
(* Log listing: GET /api/webhooks/logs *)

\* the sequences that hold each element of a set once
Orderings(S) ==
    {s \in [1..Cardinality(S) -> S] : \A i, j \in DOMAIN s : s[i] = s[j] => i = j}

\* the records of the store, ordered by received_at
list_events ==
    CHOOSE s \in Orderings({_EVENTS[i] : i \in DOMAIN _EVENTS}) :
        \A i, j \in DOMAIN s : i < j => s[i].received_at <= s[j].received_at

logs_response ==
    [code |-> 200, items |-> list_events, total |-> Len(list_events)]

list_logs ==
    /\ response' = logs_response
    /\ UNCHANGED <<_EVENTS, tasks, running, now, failure_streak>>

ListLogs == list_logs

\* the requests of the usage example, sent without a signature header
IntakeUnsigned == \E p \in Payloads : receive_webhook(p, None)

NextLogs ==
    \/ IntakeUnsigned /\ UNCHANGED <<asideVars, replay_mark>>
    \/ replays_total < MaxLogReplays /\ Replay /\ UNCHANGED <<asideVars, replay_mark>>
    \/ ProcessStart /\ UNCHANGED <<asideVars, replay_mark>>
    \/ ProcessOk /\ UNCHANGED <<asideVars, replay_mark>>
    \/ ProcessExcept /\ UNCHANGED <<asideVars, replay_mark>>
    \/ Tick /\ UNCHANGED <<asideVars, replay_mark>>
    \/ ListLogs /\ UNCHANGED <<asideVars, replay_mark>>

SpecLogs == Init /\ [][NextLogs]_vars

----------------------------------------------------------------------------
(* AuthService and the controllers in front of it (saas-nest) *)

\* the lower case of a character, for the capital letters that occur in the inputs
toLowerCaseChar(c) ==
    CASE c = "A" -> "a" [] c = "B" -> "b" [] c = "D" -> "d" [] c = "E" -> "e"
      [] c = "G" -> "g" [] c = "H" -> "h" [] c = "I" -> "i" [] c = "L" -> "l"
      [] c = "M" -> "m" [] c = "O" -> "o" [] c = "U" -> "u" [] c = "W" -> "w"
      [] OTHER -> c

\* String.prototype.toLowerCase
toLowerCase(s) == [i \in 1..Len(s) |-> toLowerCaseChar(s[i])]

RECURSIVE trimStart(_)
trimStart(s) ==
    IF s # <<>> /\ Head(s) = " " THEN trimStart(Tail(s)) ELSE s

RECURSIVE trimEnd(_)
trimEnd(s) ==
    IF s # <<>> /\ s[Len(s)] = " " THEN trimEnd(SubSeq(s, 1, Len(s) - 1)) ELSE s

\* String.prototype.trim
trim(s) == trimEnd(trimStart(s))

\* a key that keeps the case the caller typed
normalized_email_cased(raw) == trim(raw)

\* payload.email.trim().toLowerCase()
normalized_email(raw) == toLowerCase(trim(raw))

\* createHash('sha256').update(raw).digest('hex'), taken as free of collisions
hash(raw) == [sha256 |-> raw]

publicUser(user) ==
    [id |-> user.id, email |-> user.email, full_name |-> user.fullName]

\* `user_${randomBytes(8).toString('hex')}`
UserIdPool == {<<"user_", "1f0c">>, <<"user_", "9a3e">>}

\* randomBytes(24).toString('hex')
TokenPool == {<<"hex", n>> : n \in 1..MaxTokens}

Emails == {<<"a">>, <<" ", "A">>, <<"b">>}

Passwords == {"StrongPass123", "other"}

RegisterPayloads ==
    [email : Emails, password : {"StrongPass123"}, fullName : {None, Some("Nest User")}]

LoginPayloads == [email : Emails, password : Passwords]

\* randomBytes draws a value it has not drawn before
randomBytes(pool, drawn) == pool \ drawn

\* the four maps
authMaps == <<usersByEmail, usersById, tokens, profiles>>

\* JavaScript null and undefined where a string is expected
null == "null"

\* bodies of PUT /users/profile: the one of the e2e test, one without some
\* fields, and one that names another user and carries a null timezone
ProfilePatches ==
    { [displayName |-> Some("Updated User"), timezone |-> "UTC",
       biography |-> Some("Nest profile")],
      [timezone |-> "Europe/Paris"],
      [userId |-> <<"user_", "9a3e">>, timezone |-> null] }

\* a call that throws before it draws random bytes is given no draw
NoDraw == <<>>

\* a token stored without the id of its user
issueToken_unbound(userId, token) == (token :> NoDraw) @@ tokens

\* issueToken: this.tokens.set(token, userId)
issueToken(userId, token) == (token :> userId) @@ tokens

\* what register and login return
token_bundle(user, token) ==
    [user |-> publicUser(user), access_token |-> token, token_type |-> "bearer"]

\* POST /auth/register; id and token are the values randomBytes yields
register(payload, id, token) ==
    LET email == normalized_email(payload.email)
        user == [id |-> id, email |-> email,
                 passwordHash |-> hash(payload.password),
                 fullName |-> payload.fullName]
    IN  IF email \in DOMAIN usersByEmail
        THEN /\ auth_result' = [call |-> "register", code |-> 409,
                                error |-> "Email already registered"]
             /\ UNCHANGED authMaps
        ELSE /\ usersByEmail' = (email :> user) @@ usersByEmail
             /\ usersById' = (id :> user) @@ usersById
             /\ profiles' = (id :> [userId |-> id, displayName |-> payload.fullName,
                                    timezone |-> "UTC", biography |-> None]) @@ profiles
             /\ tokens' = issueToken(id, token)
             /\ auth_result' = [call |-> "register", code |-> 201,
                                body |-> token_bundle(user, token)]

\* a lookup under the email as typed, in lower case but not trimmed
login_accepts_untrimmed(payload) ==
    LET email == toLowerCase(payload.email)
    IN  /\ email \in DOMAIN usersByEmail
        /\ usersByEmail[email].passwordHash = hash(payload.password)

\* a check of the email alone
login_accepts_known_email(payload) ==
    normalized_email(payload.email) \in DOMAIN usersByEmail

\* the negation of line 53: the user exists and the digests are equal
login_accepts(payload) ==
    LET email == normalized_email(payload.email)
    IN  /\ email \in DOMAIN usersByEmail
        /\ usersByEmail[email].passwordHash = hash(payload.password)

\* POST /auth/login
login(payload, token) ==
    IF ~login_accepts(payload)
    THEN /\ auth_result' = [call |-> "login", code |-> 401, error |-> "Invalid credentials"]
         /\ UNCHANGED authMaps
    ELSE LET user == usersByEmail[normalized_email(payload.email)]
         IN  /\ tokens' = issueToken(user.id, token)
             /\ auth_result' = [call |-> "login", code |-> 200,
                                body |-> token_bundle(user, token)]
             /\ UNCHANGED <<usersByEmail, usersById, profiles>>

resolveUserByToken(token) ==
    IF token \notin DOMAIN tokens THEN None
    ELSE IF tokens[token] \notin DOMAIN usersById THEN None
    ELSE Some(usersById[tokens[token]])

\* GET /auth/me
me(token) ==
    LET user == resolveUserByToken(token)
    IN  /\ auth_result' =
              IF user = None
              THEN [call |-> "me", code |-> 401, error |-> "Invalid token"]
              ELSE [call |-> "me", code |-> 200, body |-> [user |-> publicUser(user[1])]]
        /\ UNCHANGED authMaps

\* GET /users/profile
getProfile(token) ==
    LET user == resolveUserByToken(token)
    IN  /\ auth_result' =
              IF user = None \/ user[1].id \notin DOMAIN profiles
              THEN [call |-> "getProfile", code |-> 404, error |-> "Profile not found"]
              ELSE [call |-> "getProfile", code |-> 200, body |-> profiles[user[1].id]]
        /\ UNCHANGED authMaps

\* a ?? b
coalesce(a, b) == IF a = null THEN b ELSE a

\* a merge in which the patch has the last word
merge_profile_patched(current, patch, id) == patch @@ current

\* { ...current, ...patch, userId: user.id,
\*   timezone: patch.timezone ?? current.timezone ?? 'UTC' }
merge_profile(current, patch, id) ==
    LET patch_timezone == IF "timezone" \in DOMAIN patch THEN patch.timezone ELSE null
    IN  [(patch @@ current) EXCEPT
            !.userId = id,
            !.timezone = coalesce(patch_timezone, coalesce(current.timezone, "UTC"))]

\* PUT /users/profile
updateProfile(token, patch) ==
    LET user == resolveUserByToken(token)
    IN  IF user = None
        THEN /\ auth_result' = [call |-> "updateProfile", code |-> 401, error |-> "Invalid token"]
             /\ UNCHANGED authMaps
        ELSE LET id == user[1].id
                 current == IF id \in DOMAIN profiles THEN profiles[id]
                            ELSE [userId |-> id, timezone |-> "UTC"]
                 next == merge_profile(current, patch, id)
             IN  /\ profiles' = (id :> next) @@ profiles
                 /\ auth_result' = [call |-> "updateProfile", code |-> 200, body |-> next]
                 /\ UNCHANGED <<usersByEmail, usersById, tokens>>

Register ==
    \E payload \in RegisterPayloads :
        IF normalized_email(payload.email) \in DOMAIN usersByEmail
        THEN register(payload, NoDraw, NoDraw)
        ELSE \E id \in randomBytes(UserIdPool, DOMAIN usersById) :
                \E token \in randomBytes(TokenPool, DOMAIN tokens) :
                    register(payload, id, token)

Login ==
    \E payload \in LoginPayloads :
        IF ~login_accepts(payload)
        THEN login(payload, NoDraw)
        ELSE \E token \in randomBytes(TokenPool, DOMAIN tokens) : login(payload, token)

Me == \E token \in TokenPool : me(token)

GetProfile == \E token \in TokenPool : getProfile(token)

UpdateProfile == \E token \in TokenPool : \E patch \in ProfilePatches : updateProfile(token, patch)

\* what a call of the AuthService leaves alone
authAside == <<whVars, replay_mark, sigVars, agentVars, hung>>

NextAuth ==
    \/ Register /\ UNCHANGED authAside
    \/ Login /\ UNCHANGED authAside
    \/ Me /\ UNCHANGED authAside
    \/ GetProfile /\ UNCHANGED authAside
    \/ UpdateProfile /\ UNCHANGED authAside

SpecAuth == Init /\ [][NextAuth]_vars

----------------------------------------------------------------------------
(* AuthController and UsersController: the endpoints behind a bearer token *)

\* an Authorization header as the pieces between its single spaces
\* (authorization.split(' ')); <<>> is the empty piece
Bearer == <<"B", "e", "a", "r", "e", "r">>

\* headers a request may carry: none, "Bearer <token>" for every token, and for
\* one token the scheme in lower case, another scheme, no token, an empty
\* token, an empty header, two spaces before the token, a trailing piece
AuthorizationHeaders ==
    LET token == <<"hex", 1>>
    IN  {None}
        \cup {Some(<<Bearer, t>>) : t \in TokenPool}
        \cup { Some(<<toLowerCase(Bearer), token>>),
               Some(<<<<"B", "a", "s", "i", "c">>, token>>),
               Some(<<Bearer>>),
               Some(<<Bearer, <<>>>>),
               Some(<<<<>>>>),
               Some(<<Bearer, <<>>, token>>),
               Some(<<Bearer, token, <<"x">>>>) }

\* authorization.toLowerCase().startsWith('bearer '): the first piece is
\* "bearer" in some case and a space follows it
startsWithBearer(pieces) ==
    /\ Len(pieces) >= 2
    /\ toLowerCase(pieces[1]) = toLowerCase(Bearer)

\* an extraction that takes the second piece whatever the scheme is
extractBearer_any_scheme(authorization) ==
    IF authorization = None \/ Len(authorization[1]) < 2
    THEN None
    ELSE authorization[1][2]

\* extractBearer: null, or authorization.split(' ', 2)[1]
extractBearer(authorization) ==
    IF authorization = None \/ ~startsWithBearer(authorization[1])
    THEN None
    ELSE authorization[1][2]

\* !token: null or the empty string
no_token(token) == token = None

authentication_required(call) ==
    /\ auth_result' = [call |-> call, code |-> 401, error |-> "Authentication required"]
    /\ UNCHANGED authMaps

\* GET /auth/me
AuthController_me(authorization) ==
    LET token == extractBearer(authorization)
    IN  IF no_token(token) THEN authentication_required("me") ELSE me(token)

\* GET /users/profile
UsersController_profile(authorization) ==
    LET token == extractBearer(authorization)
    IN  IF no_token(token) THEN authentication_required("getProfile") ELSE getProfile(token)

\* PUT /users/profile
UsersController_upsertProfile(payload, authorization) ==
    LET token == extractBearer(authorization)
    IN  IF no_token(token) THEN authentication_required("updateProfile")
        ELSE updateProfile(token, payload)

GetMe == \E h \in AuthorizationHeaders : AuthController_me(h)

GetUsersProfile == \E h \in AuthorizationHeaders : UsersController_profile(h)

\* @Body() payload: { displayName?: string; timezone?: string; biography?: string }
ProfileBodies == {p \in ProfilePatches : DOMAIN p \subseteq {"displayName", "timezone", "biography"}}

\* a request that is refused before its body is looked at carries the body of
\* the e2e test
PutUsersProfile ==
    \E h \in AuthorizationHeaders :
        \E payload \in IF no_token(extractBearer(h))
                       THEN {p \in ProfileBodies : DOMAIN p = {"displayName", "timezone", "biography"}}
                       ELSE ProfileBodies :
            UsersController_upsertProfile(payload, h)

\* the protected endpoints, called by anyone at any time; the tokens issued are
\* those of the registrations
NextHttp ==
    \/ Register /\ UNCHANGED authAside
    \/ GetMe /\ UNCHANGED authAside
    \/ GetUsersProfile /\ UNCHANGED authAside
    \/ PutUsersProfile /\ UNCHANGED authAside

SpecHttp == Init /\ [][NextHttp]_vars

----------------------------------------------------------------------------
(* SupportAgentService (ai-agent-nest): one handleTicket call at a time *)

\* texts as sequences of characters
high == <<"h", "i", "g", "h">>

medium == <<"m", "e", "d", "i", "u", "m">>

low == <<"l", "o", "w">>

\* String.prototype.includes
includes(s, sub) ==
    \E i \in 1..(Len(s) - Len(sub) + 1) : SubSeq(s, i, i + Len(sub) - 1) = sub

\* names the assistant may list: listProviders()
ProviderNames == {"openai", "support", "echo"}

Messages == {"My payment failed", "How do I export my data?"}

\* what the provider answers to the classification prompt
Classifications ==
    { high, <<"H", "I", "G", "H">>, <<"H", "i", "g", "h">>,
      medium, <<"M", "e", "d", "i", "u", "m">>,
      low, <<"L", "O", "W">>,
      medium \o <<" ">> \o high,
      low \o <<" ">> \o <<"H", "I", "G", "H">>,
      low \o <<" ">> \o medium,
      <<"h", "i">>,
      <<>> }

\* what the provider answers to the ticket itself: content and latency
Completions ==
    { [content |-> "Please retry the payment.", latencyMs |-> 12],
      [content |-> "", latencyMs |-> 0] }

resolveProvider(providers) ==
    IF "openai" \in providers THEN "openai"
    ELSE IF "support" \in providers THEN "support"
    ELSE "echo"

\* a classification that looks for "medium" first
classifyUrgency_medium_first(content) ==
    LET normalized == toLowerCase(content)
    IN  IF includes(normalized, medium) THEN "medium"
        ELSE IF includes(normalized, high) THEN "high"
        ELSE "low"

\* classifyUrgency, from the content of the assistant's answer on
classifyUrgency(content) ==
    LET normalized == toLowerCase(content)
    IN  IF includes(normalized, high) THEN "high"
        ELSE IF includes(normalized, medium) THEN "medium"
        ELSE "low"

SupportTicketResponse(urgency, completion, provider) ==
    [ticket_id |-> "TKT-12345",
     urgency |-> urgency,
     ai_response |-> completion.content,
     latency_ms |-> completion.latencyMs,
     next_action |-> IF urgency = "high" THEN "escalate" ELSE "monitor",
     provider |-> provider]

\* handleTicket up to the await in classifyUrgency
handleTicket_begin(message, providers) ==
    /\ IF ticket = None THEN TRUE ELSE ticket[1].pc \in {"returned", "rejected"}
    /\ ticket' = Some([pc |-> "classifyUrgency", message |-> message,
                       providers |-> providers, provider |-> resolveProvider(providers)])
    /\ ticket_response' = None

\* the classification answer arrives; handleTicket goes on to the await of the chat
handleTicket_classified(content) ==
    /\ ticket # None
    /\ ticket[1].pc = "classifyUrgency"
    /\ ticket' = Some([pc |-> "chat", message |-> ticket[1].message,
                       providers |-> ticket[1].providers, provider |-> ticket[1].provider,
                       classification |-> content, urgency |-> classifyUrgency(content)])
    /\ UNCHANGED ticket_response

\* the chat answer arrives; handleTicket returns
handleTicket_return(completion) ==
    /\ ticket # None
    /\ ticket[1].pc = "chat"
    /\ ticket' = Some([ticket[1] EXCEPT !.pc = "returned"])
    /\ ticket_response' = Some(SupportTicketResponse(ticket[1].urgency, completion,
                                                      ticket[1].provider))

\* assistant.chat rejects at either await; handleTicket rejects with it
handleTicket_reject ==
    /\ ticket # None
    /\ ticket[1].pc \in {"classifyUrgency", "chat"}
    /\ ticket' = Some([ticket[1] EXCEPT !.pc = "rejected"])
    /\ UNCHANGED ticket_response

HandleTicket ==
    \E message \in Messages : \E providers \in SUBSET ProviderNames :
        handleTicket_begin(message, providers)

Classified == \E content \in Classifications : handleTicket_classified(content)

Returned == \E completion \in Completions : handleTicket_return(completion)

Rejected == handleTicket_reject

\* what a step of the support agent leaves alone
agentAside == <<whVars, replay_mark, sigVars, authVars, hung>>

NextAgent ==
    \/ HandleTicket /\ UNCHANGED agentAside
    \/ Classified /\ UNCHANGED agentAside
    \/ Returned /\ UNCHANGED agentAside
    \/ Rejected /\ UNCHANGED agentAside

SpecAgent == Init /\ [][NextAgent]_vars

----------------------------------------------------------------------------
(* The service with its scheduling: the event loop runs every task it was
   handed, and each dispatch returns, raises or never returns *)

\* the dispatch never returns: nothing bounds the await, the task stays suspended
_process_event_hang(event) ==
    /\ BagIn(event, running)
    /\ running' = running (-) SetToBag({event})
    /\ hung' = hung (+) SetToBag({event})
    /\ UNCHANGED <<_EVENTS, tasks, now, response, failure_streak>>

ProcessHang == \E p \in Payloads : _process_event_hang(p)

\* what a step of the service with its scheduling leaves alone
liveAside == <<sigVars, authVars, agentVars, replay_mark>>

\* the event loop starts a task that is waiting
LoopRuns == ProcessStart /\ UNCHANGED <<asideVars, replay_mark>>

\* a dispatch that was awaited comes to one of its three ends
DispatchEnds ==
    \/ ProcessOk /\ UNCHANGED <<asideVars, replay_mark>>
    \/ ProcessExcept /\ UNCHANGED <<asideVars, replay_mark>>
    \/ ProcessHang /\ UNCHANGED liveAside

NextLive ==
    \/ IntakeUnsigned /\ UNCHANGED <<asideVars, replay_mark>>
    \/ replays_total < MaxLogReplays /\ Replay /\ UNCHANGED <<asideVars, replay_mark>>
    \/ ProcessStart /\ UNCHANGED <<asideVars, replay_mark>>
    \/ ProcessOk /\ UNCHANGED <<asideVars, replay_mark>>
    \/ ProcessExcept /\ UNCHANGED <<asideVars, replay_mark>>
    \/ ProcessHang /\ UNCHANGED liveAside

SpecLive ==
    Init /\ [][NextLive]_vars /\ WF_vars(LoopRuns) /\ WF_vars(DispatchEnds)

----------------------------------------------------------------------------
(* The signature round trip: the origin signs, one part of the request may be
   changed on the way, the verifier decides *)

\* strings of at most n characters of an alphabet
Strs(alphabet, n) == UNION {[1..k -> alphabet] : k \in 0..n}

SigBodies == Strs({"a", "."}, MaxStrLen)

SigTimestamps == Strs({"1", "."}, MaxStrLen) \ {<<>>}

SigSecrets == {STRIPE_WEBHOOK_SECRET, "whsec_other"}

\* signatures a forger may put in place of sg's: digests of neighbouring inputs, and junk
ForgedSignatures(sg) ==
    ( {hmac_hexdigest(sg.secret, sg.ts \o <<".">> \o b) : b \in SigBodies}
      \cup {hmac_hexdigest(sg.secret, t \o <<".">> \o sg.body) : t \in SigTimestamps}
      \cup {hmac_hexdigest(k, sg.ts \o <<".">> \o sg.body) : k \in SigSecrets}
      \cup {hmac_hexdigest(sg.secret, sg.body), hmac_hexdigest("deadbeef", <<>>)} )
    \ {hmac_hexdigest(sg.secret, sg.ts \o <<".">> \o sg.body)}

SigSigned ==
    /\ \E b \in SigBodies, t \in SigTimestamps, k \in SigSecrets :
          /\ sig_signer = Some([body |-> b, ts |-> t, secret |-> k])
          /\ sig_request = Some([body |-> b, header |-> stripe_signature(t, b, k),
                                 secret |-> k, changed |-> "nothing"])
    /\ sig_verdict = None

SigUntouched == sig_request[1].changed = "nothing" /\ sig_verdict = None

SigChangeBody ==
    /\ SigUntouched
    /\ \E b \in SigBodies \ {sig_request[1].body} :
          sig_request' = Some([sig_request[1] EXCEPT !.body = b, !.changed = "body"])
    /\ UNCHANGED <<sig_signer, sig_verdict>>

SigChangeTimestamp ==
    /\ SigUntouched
    /\ \E t \in SigTimestamps \ {sig_signer[1].ts} :
          sig_request' = Some([sig_request[1] EXCEPT !.header[1].v = t, !.changed = "timestamp"])
    /\ UNCHANGED <<sig_signer, sig_verdict>>

SigChangeSignature ==
    /\ SigUntouched
    /\ \E d \in ForgedSignatures(sig_signer[1]) :
          sig_request' = Some([sig_request[1] EXCEPT !.header[2].v = d, !.changed = "signature"])
    /\ UNCHANGED <<sig_signer, sig_verdict>>

SigChangeSecret ==
    /\ SigUntouched
    /\ \E k \in SigSecrets \ {sig_request[1].secret} :
          sig_request' = Some([sig_request[1] EXCEPT !.secret = k, !.changed = "secret"])
    /\ UNCHANGED <<sig_signer, sig_verdict>>

SigVerify ==
    /\ sig_verdict = None
    /\ sig_verdict' = Some(_verify_signature(sig_request[1].body, sig_request[1].header,
                                             sig_request[1].secret))
    /\ UNCHANGED <<sig_signer, sig_request>>

SigNext ==
    \/ SigChangeBody /\ UNCHANGED <<whVars, replay_mark, authVars, agentVars, hung>>
    \/ SigChangeTimestamp /\ UNCHANGED <<whVars, replay_mark, authVars, agentVars, hung>>
    \/ SigChangeSignature /\ UNCHANGED <<whVars, replay_mark, authVars, agentVars, hung>>
    \/ SigChangeSecret /\ UNCHANGED <<whVars, replay_mark, authVars, agentVars, hung>>
    \/ SigVerify /\ UNCHANGED <<whVars, replay_mark, authVars, agentVars, hung>>

SigInit == WhInit /\ SigSigned /\ AuthInit /\ AgentIdle

SpecSig == SigInit /\ [][SigNext]_vars

----------------------------------------------------------------------------
(* Claims about the intake *)

\* the request carries the header the origin computes for this payload with the shared secret
Genuine(p, h) ==
    /\ h # None
    /\ Len(h[1]) = 2
    /\ h[1] = stripe_signature(h[1][1].v, json_dumps(p), STRIPE_WEBHOOK_SECRET)

\* the response is an error response
IsError(r) == "error" \in DOMAIN r

\* C1: an intake whose event id is already in the store creates no record, changes no
\* field of any record, schedules no processing and, unless it is rejected, answers
\* "duplicate" with the record's current attempts.
DuplicateIntakeNoOp ==
    [][\A p \in Payloads : \A h \in RequestHeaders(json_dumps(p)) :
         (p.id \in DOMAIN _EVENTS /\ receive_webhook(p, h))
            => /\ UNCHANGED <<_EVENTS, tasks, running>>
               /\ ~IsError(response')
                    => response' = [code |-> 202, status |-> "duplicate", event_id |-> p.id,
                                    attempts |-> _EVENTS[p.id].attempts]]_vars

DuplicateIntakeWitness ==
    /\ "attempts" \in DOMAIN response
    /\ response.status = "duplicate"
    /\ response.attempts = 2
    /\ _EVENTS[response.event_id].event_type = "customer.subscription.updated"

SignatureGate ==
    [][\A p \in Payloads : \A h \in RequestHeaders(json_dumps(p)) :
         (receive_webhook(p, h) /\ h # None /\ ~Genuine(p, h))
            => /\ response' = [code |-> 401, error |-> "AuthenticationError"]
               /\ UNCHANGED <<_EVENTS, tasks, running>>]_vars

SignatureGateWitness ==
    /\ response = [code |-> 401, error |-> "AuthenticationError"]
    /\ DOMAIN _EVENTS = {"evt_2"}
    /\ tasks = EmptyBag

\* C4 as stated: every record is created by an intake whose signature verified; a
\* request without a signature header creates no record.
RecordsOnlyFromVerifiedIntake ==
    [][\A p \in Payloads : \A h \in RequestHeaders(json_dumps(p)) :
         (receive_webhook(p, h) /\ p.id \notin DOMAIN _EVENTS /\ p.id \in DOMAIN _EVENTS')
            => Genuine(p, h)]_vars

----------------------------------------------------------------------------
(* Claims about replay and processing *)

\* C6 as stated: a replay of an id that is not in the store answers NotFound (404),
\* changes no record and schedules nothing.
ReplayUnknownNotFound ==
    [][\A id \in ReplayIds :
         (replay_event(id) /\ id \notin DOMAIN _EVENTS)
            => /\ response' = [code |-> 404, error |-> "NotFound"]
               /\ UNCHANGED <<_EVENTS, tasks, running>>]_vars

SuccessClearsLastError ==
    [][\A p \in Payloads :
         _process_event_ok(p)
            => /\ _EVENTS'[p.id].status = "processed"
               /\ _EVENTS'[p.id].processed_at # None
               /\ _EVENTS'[p.id].last_error = None]_vars

\* C9: after a processing attempt whose side effect fails, last_error holds that
\* failure's description, and status is retry_scheduled if attempts is below
\* max_attempts and failed otherwise.
FailedOutcome ==
    [][\A p \in Payloads : \A exc \in Errors :
         _process_event_except(p, exc)
            => /\ _EVENTS'[p.id].last_error = Some(exc)
               /\ _EVENTS'[p.id].attempts = _EVENTS[p.id].attempts
               /\ _EVENTS'[p.id].status =
                     IF _EVENTS'[p.id].attempts < WEBHOOKS_MAX_RETRIES
                     THEN "retry_scheduled" ELSE "failed"]_vars

FailedOutcomeWitness ==
    /\ "evt_1" \in DOMAIN _EVENTS
    /\ _EVENTS["evt_1"].status = "retry_scheduled"
    /\ _EVENTS["evt_1"].attempts = 2
    /\ _EVENTS["evt_1"].last_error = Some("smtp down")
    /\ failure_streak["evt_1"] = 2

\* C10: once max_attempts processing failures in a row have completed for an event its
\* status is failed, and a record whose status is failed never goes to retry_scheduled.
RetryBound ==
    [][\A id \in DOMAIN _EVENTS :
         /\ failure_streak'[id] >= WEBHOOKS_MAX_RETRIES => _EVENTS'[id].status = "failed"
         /\ _EVENTS[id].status = "failed" => _EVENTS'[id].status # "retry_scheduled"]_vars

RetryBoundWitness ==
    /\ "evt_1" \in DOMAIN _EVENTS
    /\ failure_streak["evt_1"] = WEBHOOKS_MAX_RETRIES + 1
    /\ _EVENTS["evt_1"].status = "failed"
    /\ _EVENTS["evt_1"].replay_count = 3

----------------------------------------------------------------------------
\* the fields of a record that only processing writes
Outcome(record) ==
    <<record.status, record.attempts, record.processed_at, record.last_error>>

\* some step of _process_event acts on the record of event i
ProcessingStepOf(i) ==
    \E p \in Payloads :
        /\ p.id = i
        /\ \/ _process_event_start(p)
           \/ _process_event_ok(p)
           \/ \E exc \in Errors : _process_event_except(p, exc)

\* C11: an accepted intake writes the store once, the insert of a record that is
\* still queued with zero attempts when "accepted" is answered, and hands the
\* processing over as a pending task; every change of a record's status,
\* attempts, processed_at or last_error is a later step of the processor.
IntakeDefersProcessing ==
    [][/\ \A p \in Payloads : \A h \in RequestHeaders(json_dumps(p)) :
            (response' = accepted_response(p) /\ receive_webhook(p, h))
               => /\ p.id \notin DOMAIN _EVENTS
                  /\ DOMAIN _EVENTS' = DOMAIN _EVENTS \cup {p.id}
                  /\ \A i \in DOMAIN _EVENTS : _EVENTS'[i] = _EVENTS[i]
                  /\ Outcome(_EVENTS'[p.id]) = <<"queued", 0, None, None>>
                  /\ tasks' = tasks (+) SetToBag({p})
                  /\ running' = running
       /\ \A i \in DOMAIN _EVENTS :
            Outcome(_EVENTS'[i]) # Outcome(_EVENTS[i]) => ProcessingStepOf(i)]_vars

\* the second event was just accepted and waits, while the first is already processed
IntakeDefersProcessingWitness ==
    /\ response = accepted_response(StripeWebhookRequest("evt_2", "customer.subscription.updated", "d1"))
    /\ DOMAIN _EVENTS = {"evt_1", "evt_2"}
    /\ _EVENTS["evt_1"].status = "processed"
    /\ Outcome(_EVENTS["evt_2"]) = <<"queued", 0, None, None>>
    /\ BagIn(StripeWebhookRequest("evt_2", "customer.subscription.updated", "d1"), tasks)

----------------------------------------------------------------------------
\* a replay of the failed record of event i was accepted and none since
ReplayedFromFailed(i) ==
    /\ replay_mark # None
    /\ replay_mark[1].event_id = i
    /\ i \in DOMAIN _EVENTS
    /\ _EVENTS[i].replay_count = replay_mark[1].replay_count + 1

\* no processing of event i is scheduled or running
Quiet(i) == Pending(i) = 0 /\ InFlight(i) = 0

\* a replay of a failed record answers "replay_accepted" with the count raised by one
ReplayOfFailedAnswers ==
    \A i \in ReplayIds :
        (replay_event(i) /\ i \in DOMAIN _EVENTS /\ _EVENTS[i].status = "failed")
           => /\ response' = [code |-> 202, status |-> "replay_accepted", event_id |-> i,
                              replay_count |-> _EVENTS[i].replay_count + 1]
              /\ _EVENTS'[i].replay_count = _EVENTS[i].replay_count + 1
              /\ _EVENTS'[i].attempts = _EVENTS[i].attempts

\* an attempt that completes after the replay of a failed record leaves the
\* record processed if it succeeded and failed if it did not
ReplayOfFailedOutcome ==
    \A p \in Payloads :
        ReplayedFromFailed(p.id)
           => /\ _process_event_ok(p) => _EVENTS'[p.id].status = "processed"
              /\ \A exc \in Errors :
                    _process_event_except(p, exc) => _EVENTS'[p.id].status = "failed"

----------------------------------------------------------------------------
\* the step is an intake answered "accepted"
AcceptedIntake ==
    \E p \in Payloads :
        /\ response' = accepted_response(p)
        /\ \E h \in RequestHeaders(json_dumps(p)) : receive_webhook(p, h)

\* the listing holds one record per stored id, each as the store has it now,
\* in ascending order of received_at
ListingFaithful ==
    LET items == list_events
    IN  /\ Len(items) = Cardinality(DOMAIN _EVENTS)
        /\ \A i \in DOMAIN _EVENTS :
              \E k \in DOMAIN items :
                 /\ items[k] = _EVENTS[i]
                 /\ \A j \in DOMAIN items : items[j].event_id = i => j = k
        /\ \A j, k \in DOMAIN items :
              j < k => items[j].received_at <= items[k].received_at

\* C13: the listing after N accepted intakes with distinct ids, whatever
\* duplicates, replays and processing came between, holds exactly N records,
\* one per id, ordered by received_at ascending, each in its current state:
\* the listing is empty at first, grows by one record with every accepted
\* intake and with no other step, and the endpoint answers it with its length.
ListingOnePerAcceptedIntake ==
    /\ [](ListingFaithful)
    /\ [][/\ Len(list_events') = Len(list_events) + (IF AcceptedIntake THEN 1 ELSE 0)
          /\ list_logs => /\ response'.items = list_events
                          /\ response'.total = Cardinality(DOMAIN _EVENTS)]_vars

\* two events accepted at different times, one replayed and processed, then listed
ListingWitness ==
    /\ response = logs_response
    /\ response.total = 2
    /\ response.items[1].received_at < response.items[2].received_at
    /\ response.items[1].replay_count = 1
    /\ response.items[1].status = "processed"
    /\ response.items[2].status = "retry_scheduled"

----------------------------------------------------------------------------
\* C14: a failure of the side effect stays inside the processing step: the
\* answer already given to the intake or replay caller is not touched, nothing
\* is rescheduled or dropped, and the record gets an outcome; every completed
\* attempt leaves the record processed, retry_scheduled or failed, so a record
\* still queued has no completed attempt.
ProcessingFailureContained ==
    /\ [](\A i \in DOMAIN _EVENTS :
            _EVENTS[i].status = "queued" => _EVENTS[i].attempts = InFlight(i))
    /\ [][/\ \A p \in Payloads : \A exc \in Errors :
               _process_event_except(p, exc)
                  => /\ response' = response
                     /\ tasks' = tasks
                     /\ InFlight(p.id)' = InFlight(p.id) - 1
                     /\ _EVENTS'[p.id].status \in {"retry_scheduled", "failed"}
                     /\ _EVENTS'[p.id].last_error = Some(exc)
          /\ \A p \in Payloads :
               _process_event_ok(p)
                  => /\ response' = response
                     /\ _EVENTS'[p.id].status = "processed"]_vars

\* the caller of the intake got "accepted", the attempt failed afterwards
ProcessingFailureContainedWitness ==
    /\ response = accepted_response(StripeWebhookRequest("evt_2", "customer.subscription.updated", "d1"))
    /\ "evt_2" \in DOMAIN _EVENTS
    /\ _EVENTS["evt_2"].status = "retry_scheduled"
    /\ _EVENTS["evt_2"].last_error = Some("timeout")
    /\ Quiet("evt_2")

----------------------------------------------------------------------------
\* C17: while no attempt of an event is in flight, processed_at is set exactly
\* when the most recent attempt ended in processed, the status the record then
\* shows; a processed event whose replay failed has no processed_at.
ProcessedAtConsistent ==
    \A i \in DOMAIN _EVENTS :
        InFlight(i) = 0
           => (_EVENTS[i].processed_at # None <=> _EVENTS[i].status = "processed")

----------------------------------------------------------------------------
\* the status transition table; record is the record as the assignment finds it
StatusTable(from, to, record) ==
    \/ from = "queued" /\ to \in {"processed", "failed"}
    \/ from = "failed" /\ to = "retry_scheduled"
          /\ record.attempts < WEBHOOKS_MAX_RETRIES
    \/ from = "retry_scheduled" /\ to \in {"processed", "failed"}
    \* a replay brings a terminal record to a fresh outcome
    \/ from \in {"processed", "failed"} /\ to \in {"processed", "failed"}
          /\ record.replay_count >= 1

\* every change along a chain of status values is in the table
AlongTable(chain, record) ==
    \A k \in 1..(Len(chain) - 1) :
        chain[k] # chain[k + 1] => StatusTable(chain[k], chain[k + 1], record)

\* C18: every change of a record's status follows the table: queued to
\* processed or failed, failed to retry_scheduled only below max_attempts,
\* retry_scheduled to processed or failed, and a terminal record to a fresh
\* outcome once it was replayed; status changes only where an attempt
\* completes, never back to queued. A change is one assignment to status: the
\* except branch assigns failed and then, below the bound, retry_scheduled.
StatusFollowsTable ==
    [][/\ \A p \in Payloads :
            _process_event_ok(p)
               => AlongTable(<<_EVENTS[p.id].status, _EVENTS'[p.id].status>>, _EVENTS[p.id])
       /\ \A p \in Payloads : \A exc \in Errors :
            _process_event_except(p, exc)
               => LET writes == except_status_writes(_EVENTS[p.id], WEBHOOKS_MAX_RETRIES)
                  IN  /\ AlongTable(<<_EVENTS[p.id].status>> \o writes, _EVENTS[p.id])
                      /\ _EVENTS'[p.id].status = writes[Len(writes)]
       /\ \A i \in DOMAIN _EVENTS :
            _EVENTS'[i].status # _EVENTS[i].status
               => /\ _EVENTS'[i].status # "queued"
                  /\ \E p \in Payloads :
                        /\ p.id = i
                        /\ \/ _process_event_ok(p)
                           \/ \E exc \in Errors : _process_event_except(p, exc)]_vars

\* a processed record was replayed and the replay's attempt failed below the bound
StatusFollowsTableWitness ==
    /\ "evt_1" \in DOMAIN _EVENTS
    /\ _EVENTS["evt_1"].status = "retry_scheduled"
    /\ _EVENTS["evt_1"].processed_at # None
    /\ _EVENTS["evt_1"].replay_count = 1
    /\ _EVENTS["evt_1"].attempts = 2
    /\ Quiet("evt_1")

----------------------------------------------------------------------------
\* C19: every invocation of the processor adds exactly 1 to attempts as it
\* starts, before the side effect runs, and no other step changes attempts; a
\* record is created with attempts and replay_count 0 and neither ever decreases.
AttemptAccounting ==
    [][/\ \A p \in Payloads :
            _process_event_start(p)
               => /\ _EVENTS'[p.id].attempts = _EVENTS[p.id].attempts + 1
                  /\ InFlight(p.id)' = InFlight(p.id) + 1
                  /\ \A i \in DOMAIN _EVENTS \ {p.id} :
                        _EVENTS'[i].attempts = _EVENTS[i].attempts
       /\ \A i \in DOMAIN _EVENTS :
            /\ _EVENTS'[i].attempts >= _EVENTS[i].attempts
            /\ _EVENTS'[i].replay_count >= _EVENTS[i].replay_count
            /\ _EVENTS'[i].attempts # _EVENTS[i].attempts
                  => \E p \in Payloads : p.id = i /\ _process_event_start(p)
       /\ \A i \in DOMAIN _EVENTS' \ DOMAIN _EVENTS :
            _EVENTS'[i].attempts = 0 /\ _EVENTS'[i].replay_count = 0]_vars

\* two attempts of one event have started and neither has finished
AttemptAccountingWitness ==
    /\ "evt_1" \in DOMAIN _EVENTS
    /\ _EVENTS["evt_1"].attempts = 2
    /\ InFlight("evt_1") = 2
    /\ _EVENTS["evt_1"].status = "queued"

----------------------------------------------------------------------------
----------------------------------------------------------------------------
\* the users the service holds
Users == {usersById[i] : i \in DOMAIN usersById}

\* the address an email stands for: trimmed and in lower case
Address(email) == toLowerCase(trim(email))

\* C15: a register whose email, trimmed and lower-cased, is that of an existing
\* user is answered 409 'Email already registered' and changes none of the
\* user, token and profile maps (it throws before it draws an id or a token);
\* no two users share a normalized email.
DuplicateEmailRejected ==
    /\ [](\A u, v \in Users : Address(u.email) = Address(v.email) => u = v)
    /\ [][auth_result'.call = "register"
             => \A payload \in {p \in RegisterPayloads :
                                  \E u \in Users : u.email = Address(p.email)} :
                   register(payload, NoDraw, NoDraw)
                      => /\ auth_result' = [call |-> "register", code |-> 409,
                                            error |-> "Email already registered"]
                         /\ UNCHANGED authMaps]_vars

\* "a" is registered and has logged in; a register of " A" was just refused
DuplicateEmailRejectedWitness ==
    /\ auth_result = [call |-> "register", code |-> 409, error |-> "Email already registered"]
    /\ DOMAIN usersByEmail = {<<"a">>}
    /\ Cardinality(DOMAIN tokens) = 2
    /\ Cardinality(DOMAIN profiles) = 1

----------------------------------------------------------------------------
\* the credentials a user registered with would be accepted now
CredentialsAccepted ==
    \A u \in Users : \A e \in Emails : \A pw \in Passwords :
        (Address(e) = u.email /\ hash(pw) = u.passwordHash)
           => login_accepts([email |-> e, password |-> pw])

\* every token issued resolves to the user it was issued to, who has a profile
TokensResolve ==
    \A t \in DOMAIN tokens :
        /\ tokens[t] \in DOMAIN usersById
        /\ resolveUserByToken(t) = Some(usersById[tokens[t]])
        /\ usersById[tokens[t]].id = tokens[t]
        /\ usersByEmail[usersById[tokens[t]].email] = usersById[tokens[t]]
        /\ tokens[t] \in DOMAIN profiles
        /\ profiles[tokens[t]].userId = tokens[t]

\* a successful register stores the user under the credentials given and
\* returns a new token that resolves to that user
RegisterIssues ==
    (auth_result'.call = "register" /\ auth_result'.code = 201)
       => \A payload \in RegisterPayloads :
             \A id \in UserIdPool : \A token \in TokenPool :
                register(payload, id, token)
                   => /\ token \notin DOMAIN tokens
                      /\ auth_result'.body.access_token = token
                      /\ tokens'[token] = id
                      /\ usersById'[id].email = Address(payload.email)
                      /\ usersById'[id].passwordHash = hash(payload.password)
                      /\ auth_result'.body.user = publicUser(usersById'[id])

\* a login with accepted credentials answers 200 with a new token of that user
LoginIssues ==
    auth_result'.call = "login"
       => \A payload \in {p \in LoginPayloads : login_accepts(p)} :
             \A token \in TokenPool :
                login(payload, token)
                   => LET user == usersByEmail[Address(payload.email)]
                      IN  /\ auth_result'.code = 200
                          /\ token \notin DOMAIN tokens
                          /\ auth_result'.body.access_token = token
                          /\ auth_result'.body.user = publicUser(user)
                          /\ tokens'[token] = user.id

\* me and getProfile of an issued token answer the user and the profile of
\* the user the token was issued to
TokenAnswers ==
    auth_result'.call \in {"me", "getProfile"}
       => \A t \in DOMAIN tokens :
             /\ me(t) => auth_result' = [call |-> "me", code |-> 200,
                                        body |-> [user |-> publicUser(usersById[tokens[t]])]]
             /\ getProfile(t) => /\ auth_result'.code = 200
                                 /\ auth_result'.body = profiles[tokens[t]]
                                 /\ auth_result'.body.userId = tokens[t]

\* tokens and users stay as they are
TokensKept ==
    /\ \A t \in DOMAIN tokens : t \in DOMAIN tokens' /\ tokens'[t] = tokens[t]
    /\ \A i \in DOMAIN usersById : i \in DOMAIN usersById' /\ usersById'[i] = usersById[i]

\* C16: after register(e, p) succeeded, login(e, p) succeeds and returns a
\* token t for which me(t) answers the registered user and getProfile(t) that
\* user's profile; the tokens returned by register and by every successful
\* login keep resolving to that same user in every later state.
RegisterLoginFlow ==
    /\ [](CredentialsAccepted /\ TokensResolve)
    /\ [][RegisterIssues /\ LoginIssues /\ TokenAnswers /\ TokensKept]_vars

\* "a" registered and logged in, "b" registered; me was just asked with a token of "a"
RegisterLoginFlowWitness ==
    /\ DOMAIN usersByEmail = {<<"a">>, <<"b">>}
    /\ Cardinality({t \in DOMAIN tokens : tokens[t] = usersByEmail[<<"a">>].id}) = 2
    /\ Cardinality({t \in DOMAIN tokens : tokens[t] = usersByEmail[<<"b">>].id}) = 1
    /\ auth_result = [call |-> "me", code |-> 200,
                      body |-> [user |-> publicUser(usersByEmail[<<"a">>])]]

----------------------------------------------------------------------------
\* another attempt of the event of p is scheduled or running beside the one stepping
Overlapping(p) == Pending(p.id) + InFlight(p.id) >= 2

\* C21: no update is lost when attempts of one event overlap: while another
\* attempt of the event is waiting or in flight, a start adds exactly 1 to
\* attempts, a completion leaves both counters alone and an accepted replay
\* adds exactly 1 to replay_count; once all k attempts are complete attempts
\* has grown by k, one for the intake and one per replay.
NoLostUpdates ==
    /\ [](\A i \in DOMAIN _EVENTS :
            Quiet(i) => _EVENTS[i].attempts = 1 + _EVENTS[i].replay_count)
    /\ [][/\ \A p \in Payloads :
               (Overlapping(p) /\ _process_event_start(p))
                  => /\ _EVENTS'[p.id].attempts = _EVENTS[p.id].attempts + 1
                     /\ _EVENTS'[p.id].replay_count = _EVENTS[p.id].replay_count
          /\ \A p \in Payloads :
               (Overlapping(p)
                  /\ (_process_event_ok(p) \/ \E exc \in Errors : _process_event_except(p, exc)))
                  => /\ _EVENTS'[p.id].attempts = _EVENTS[p.id].attempts
                     /\ _EVENTS'[p.id].replay_count = _EVENTS[p.id].replay_count
          /\ \A i \in ReplayIds :
               (i \in DOMAIN _EVENTS /\ Pending(i) + InFlight(i) >= 1 /\ replay_event(i))
                  => /\ _EVENTS'[i].replay_count = _EVENTS[i].replay_count + 1
                     /\ _EVENTS'[i].attempts = _EVENTS[i].attempts
                     /\ Pending(i)' = Pending(i) + 1]_vars

\* the intake's attempt and those of two replays are all in flight at once
NoLostUpdatesWitness ==
    /\ "evt_1" \in DOMAIN _EVENTS
    /\ InFlight("evt_1") = 3
    /\ _EVENTS["evt_1"].attempts = 3
    /\ _EVENTS["evt_1"].replay_count = 2

----------------------------------------------------------------------------
\* C22: with no attempt of an event pending or in flight, the record is not
\* queued, retry_scheduled comes with 1 <= attempts < max_attempts and an
\* error text, and failed comes with attempts >= max_attempts and an error
\* text, whatever overlap of attempts led there.
QuiescentStatusConsistent ==
    \A i \in DOMAIN _EVENTS :
        Quiet(i)
           => /\ _EVENTS[i].status # "queued"
              /\ _EVENTS[i].status = "retry_scheduled"
                    => /\ 1 <= _EVENTS[i].attempts
                       /\ _EVENTS[i].attempts < WEBHOOKS_MAX_RETRIES
                       /\ _EVENTS[i].last_error # None
              /\ _EVENTS[i].status = "failed"
                    => /\ _EVENTS[i].attempts >= WEBHOOKS_MAX_RETRIES
                       /\ _EVENTS[i].last_error # None

\* five attempts of one event are over, the last to complete failed
QuiescentStatusConsistentWitness ==
    /\ "evt_1" \in DOMAIN _EVENTS
    /\ Quiet("evt_1")
    /\ _EVENTS["evt_1"].status = "failed"
    /\ _EVENTS["evt_1"].attempts = 5
    /\ _EVENTS["evt_1"].processed_at # None

----------------------------------------------------------------------------
\* C23: every record that was accepted eventually leaves queued with an
\* outcome, and an attempt whose side-effect call does not return is cut off
\* and recorded as a failed attempt instead of staying suspended.
EveryAttemptCompletes ==
    \A i \in EventIds :
        /\ (i \in DOMAIN _EVENTS) ~> (i \in DOMAIN _EVENTS /\ _EVENTS[i].status # "queued")
        /\ (TasksOf(hung, i) > 0) ~> (TasksOf(hung, i) = 0)

----------------------------------------------------------------------------
\* what identifies a record
Identity(record) ==
    <<record.event_id, record.event_type, record.received_at, record.metadata>>

\* C24: a record, once stored, keeps its event_id, event_type, received_at and
\* metadata through every intake, processing and replay step and through the
\* passing of time, stays stored under its own id, and is never removed.
RecordIdentityFrozen ==
    /\ [](\A i \in DOMAIN _EVENTS : _EVENTS[i].event_id = i)
    /\ [][\A i \in DOMAIN _EVENTS :
             /\ i \in DOMAIN _EVENTS'
             /\ Identity(_EVENTS'[i]) = Identity(_EVENTS[i])]_vars

\* a record received at 0 was processed at 1, replayed, and hit by a duplicate intake
RecordIdentityFrozenWitness ==
    /\ "evt_1" \in DOMAIN _EVENTS
    /\ _EVENTS["evt_1"].received_at = 0
    /\ _EVENTS["evt_1"].processed_at = Some(1)
    /\ _EVENTS["evt_1"].replay_count = 1
    /\ _EVENTS["evt_1"].attempts = 2
    /\ response = duplicate_response(_EVENTS["evt_1"])

----------------------------------------------------------------------------
\* C25: replay input round trip. The event descriptor a replay hands to the
\* processor has the id, type and payload of the first accepted intake for that
\* id, whatever later duplicate intakes carried: the accepted intake of p leaves
\* a record whose descriptor is p, no later step (a duplicate intake of another
\* type and payload included) changes the descriptor of a stored record, and an
\* accepted replay schedules exactly that descriptor, once, whatever the
\* request's signature header would have been (the replay takes none).

\* the descriptor a record stands for: id, type and payload
Descriptor(record) ==
    [id |-> record.event_id, type |-> record.event_type, data |-> record.metadata]

FirstIntakeKept ==
    \A i \in DOMAIN _EVENTS' \ DOMAIN _EVENTS :
        \E p \in Payloads :
            /\ p.id = i
            /\ response' = accepted_response(p)
            /\ Descriptor(_EVENTS'[i]) = p

DescriptorFrozen ==
    \A i \in DOMAIN _EVENTS :
        /\ i \in DOMAIN _EVENTS'
        /\ Descriptor(_EVENTS'[i]) = Descriptor(_EVENTS[i])

ReplayHandsDescriptor ==
    \A i \in DOMAIN _EVENTS :
        (i \in DOMAIN _EVENTS' /\ _EVENTS'[i].replay_count # _EVENTS[i].replay_count)
            => /\ tasks' = tasks (+) SetToBag({Descriptor(_EVENTS[i])})
               /\ response'.status = "replay_accepted"

----------------------------------------------------------------------------
\* the email, trimmed and lower-cased, is that of a registered user whose
\* stored hash is the hash of the password given
CredentialsMatch(payload) ==
    \E u \in Users :
        /\ u.email = Address(payload.email)
        /\ u.passwordHash = hash(payload.password)

\* C26: login succeeds exactly when the normalized (trimmed, lower-cased) email
\* is registered and the hash of the password equals the stored hash; a failed
\* login throws 'Invalid credentials' (answered 401), issues no token and
\* changes none of the maps. Stated per login step and payload: the step has
\* the outcome the credentials call for, or it is not a login of that payload.
LoginExactlyOnMatch ==
    [][auth_result'.call = "login"
          => \A payload \in LoginPayloads :
                \/ IF CredentialsMatch(payload)
                   THEN /\ auth_result'.code = 200
                        /\ auth_result'.body.access_token \in DOMAIN tokens' \ DOMAIN tokens
                   ELSE /\ auth_result' = [call |-> "login", code |-> 401,
                                           error |-> "Invalid credentials"]
                        /\ UNCHANGED authMaps
                \/ \A token \in TokenPool \cup {NoDraw} : ~login(payload, token)]_vars

\* "a" and "b" are registered, a login of one of them succeeded before, and a
\* login was just refused
LoginExactlyOnMatchWitness ==
    /\ auth_result = [call |-> "login", code |-> 401, error |-> "Invalid credentials"]
    /\ DOMAIN usersByEmail = {<<"a">>, <<"b">>}
    /\ Cardinality(DOMAIN tokens) = 3

----------------------------------------------------------------------------
\* the records usersByEmail holds
UsersByEmail == {usersByEmail[e] : e \in DOMAIN usersByEmail}

\* the profiles stored for the user of id i
ProfilesOf(i) == {k \in DOMAIN profiles : profiles[k].userId = i}

\* C27: after any sequence of register, login, me, getProfile and updateProfile
\* calls, usersByEmail and usersById contain exactly the same user records (each
\* under its own email and its own id), every token in the token map refers to
\* an existing user id, and every user has exactly one profile whose userId is
\* that user's id, stored under that id.
MapsConsistent ==
    /\ UsersByEmail = Users
    /\ \A e \in DOMAIN usersByEmail : usersByEmail[e].email = e
    /\ \A i \in DOMAIN usersById : usersById[i].id = i
    /\ \A t \in DOMAIN tokens : tokens[t] \in DOMAIN usersById
    /\ \A u \in Users : ProfilesOf(u.id) = {u.id}
    /\ DOMAIN profiles = DOMAIN usersById

\* two users, one of them logged in again and changed their profile
MapsConsistentWitness ==
    /\ Cardinality(Users) = 2
    /\ Cardinality(DOMAIN tokens) = 3
    /\ \E i \in DOMAIN profiles : profiles[i].timezone = "Europe/Paris"
    /\ auth_result.call = "getProfile"

----------------------------------------------------------------------------
\* the profile the patch asks for, field by field, on top of the one stored
PatchApplied(before, after, patch) ==
    /\ DOMAIN after = DOMAIN before \cup DOMAIN patch
    /\ \A f \in DOMAIN after \ {"userId", "timezone"} :
          after[f] = IF f \in DOMAIN patch THEN patch[f] ELSE before[f]
    /\ after.timezone = IF "timezone" \in DOMAIN patch /\ patch.timezone # null
                        THEN patch.timezone ELSE before.timezone

\* an updateProfile step: with the token of a user it merges the patch into that
\* user's profile only and returns the stored profile; with a token nobody
\* holds it answers null (401 at the controller) and changes nothing
UpdateProfileOwnOnly ==
    auth_result'.call = "updateProfile"
       => \A t \in TokenPool : \A patch \in ProfilePatches :
             updateProfile(t, patch)
                => IF t \in DOMAIN tokens
                   THEN LET id == tokens[t]
                        IN  /\ auth_result'.code = 200
                            /\ auth_result'.body = profiles'[id]
                            /\ PatchApplied(profiles[id], profiles'[id], patch)
                            /\ profiles'[id].userId = id
                            /\ DOMAIN profiles' = DOMAIN profiles
                            /\ \A j \in DOMAIN profiles \ {id} : profiles'[j] = profiles[j]
                            /\ UNCHANGED <<usersByEmail, usersById, tokens>>
                   ELSE /\ auth_result' = [call |-> "updateProfile", code |-> 401,
                                           error |-> "Invalid token"]
                        /\ UNCHANGED authMaps

\* a getProfile step returns the stored profile of the token's owner, and no
\* step but an updateProfile changes a stored profile
ProfileReadBack ==
    /\ auth_result'.call = "getProfile"
          => \A t \in DOMAIN tokens : getProfile(t) => auth_result'.body = profiles[tokens[t]]
    /\ auth_result'.call # "updateProfile"
          => \A i \in DOMAIN profiles : i \in DOMAIN profiles' /\ profiles'[i] = profiles[i]

\* C28: updateProfile with a valid token merges the patch into the caller's own
\* profile only: the stored profile's userId stays the token owner's id even
\* when the patch supplies another userId, its timezone is never undefined or
\* null, no other user's profile changes, and the returned profile is the one
\* getProfile returns afterwards; with an unknown token it returns null and
\* changes nothing.
UpdateProfileMergesOwn ==
    /\ [](\A i \in DOMAIN profiles :
             profiles[i].userId = i /\ profiles[i].timezone # null)
    /\ [][UpdateProfileOwnOnly /\ ProfileReadBack]_vars

\* both users hold a profile; the user of id 1f0c, whose timezone is
\* Europe/Paris, has just sent a patch and was answered their own profile with
\* the timezone kept
UpdateProfileMergesOwnWitness ==
    /\ auth_result.call = "updateProfile"
    /\ auth_result.code = 200
    /\ DOMAIN profiles = UserIdPool
    /\ auth_result.body.userId = <<"user_", "1f0c">>
    /\ auth_result.body.timezone = "Europe/Paris"
    /\ auth_result.body = profiles[<<"user_", "1f0c">>]

----------------------------------------------------------------------------
\* the header is missing, does not start with "bearer " in any case, or
\* carries an empty token
NoBearerToken(h) ==
    \/ h = None
    \/ Len(h[1]) < 2
    \/ toLowerCase(h[1][1]) # <<"b", "e", "a", "r", "e", "r">>
    \/ h[1][2] = <<>>

\* the request is refused with the code given: no data in the answer, no map changed
RefusedWith(code) ==
    /\ auth_result'.code = code
    /\ DOMAIN auth_result' = {"call", "code", "error"}
    /\ UNCHANGED authMaps

\* the headers without a bearer token, and those whose token was never issued
NoBearerHeaders == {h \in AuthorizationHeaders : NoBearerToken(h)}

UnissuedHeaders ==
    {h \in AuthorizationHeaders \ NoBearerHeaders : h[1][2] \notin DOMAIN tokens}

\* C29: the protected endpoints never serve data without an issued token:
\* GET /auth/me, GET /users/profile and PUT /users/profile answer 401 when the
\* Authorization header is missing, does not start with 'Bearer '
\* (case-insensitive) or carries an empty token; with a well-formed header
\* whose token was never issued, /auth/me and PUT /users/profile answer 401
\* and GET /users/profile answers 404; in none of these cases is any user or
\* profile data returned or changed. Stated per step of an endpoint: a step
\* that is not a refusal with the code named is the answer to none of these
\* headers.
ProtectedNeedIssuedToken ==
    [][/\ auth_result'.call = "me"
          => \/ RefusedWith(401)
             \/ \A h \in NoBearerHeaders \cup UnissuedHeaders : ~AuthController_me(h)
       /\ auth_result'.call = "getProfile"
          => /\ \/ RefusedWith(401)
                \/ \A h \in NoBearerHeaders : ~UsersController_profile(h)
             /\ \/ RefusedWith(404)
                \/ \A h \in UnissuedHeaders : ~UsersController_profile(h)
       /\ auth_result'.call = "updateProfile"
          => \/ RefusedWith(401)
             \/ \A h \in NoBearerHeaders \cup UnissuedHeaders :
                   \A payload \in ProfileBodies :
                      ~UsersController_upsertProfile(payload, h)]_vars

\* two users are registered, one of them holds the token the malformed headers
\* carry, and GET /users/profile was just answered 404
ProtectedNeedIssuedTokenWitness ==
    /\ auth_result = [call |-> "getProfile", code |-> 404, error |-> "Profile not found"]
    /\ Cardinality(Users) = 2
    /\ <<"hex", 1>> \in DOMAIN tokens
    /\ \E i \in DOMAIN profiles : profiles[i].timezone = "Europe/Paris"

----------------------------------------------------------------------------
\* the text contains the word, whatever the case of its letters
Mentions(content, word) == includes(toLowerCase(content), word)

\* C30: handleTicket returns next_action 'escalate' exactly when urgency is
\* 'high' and 'monitor' otherwise, where urgency is 'high' whenever the
\* classification response contains 'high' (case-insensitive, even if it also
\* contains 'medium' or 'low'), else 'medium' if it contains 'medium', else
\* 'low'; the provider used is 'openai' if registered, else 'support' if
\* registered, else 'echo'.
TicketVerdict ==
    ticket_response # None
       => LET call == ticket[1]
              returned == ticket_response[1]
          IN  /\ call.pc = "returned"
              /\ returned.next_action = IF returned.urgency = "high"
                                        THEN "escalate" ELSE "monitor"
              /\ returned.urgency = IF Mentions(call.classification, high) THEN "high"
                                    ELSE IF Mentions(call.classification, medium)
                                    THEN "medium" ELSE "low"
              /\ returned.provider = IF "openai" \in call.providers THEN "openai"
                                     ELSE IF "support" \in call.providers THEN "support"
                                     ELSE "echo"

\* with the support provider registered and openai not, a classification that
\* names low and, in capitals, high was answered by an escalation
TicketVerdictWitness ==
    /\ ticket_response # None
    /\ ticket[1].providers = {"support", "echo"}
    /\ ticket[1].classification = low \o <<" ">> \o <<"H", "I", "G", "H">>
    /\ ticket_response[1].next_action = "escalate"
    /\ ticket_response[1].provider = "support"

----------------------------------------------------------------------------
\* C5: a header signed for (timestamp, body, secret) verifies, and no longer verifies
\* once the body, the timestamp, the signature or the secret has been changed.
SignatureRoundTrip ==
    sig_verdict # None => (sig_verdict[1] <=> sig_request[1].changed = "nothing")

SignatureRoundTripWitness ==
    /\ sig_verdict = Some(FALSE)
    /\ sig_request[1].changed = "timestamp"
    /\ "." \in {sig_request[1].body[i] : i \in 1..Len(sig_request[1].body)}

====
